---- MODULE Spec2Model ----
(***************************************************************************)
(* Model of wadebug/wa_actions/log_utils.py: the log-collection run        *)
(* (prepare_logs), its access guard, the time-window resolver, the         *)
(* per-container collection loop (get_logs) and the support-info           *)
(* collector.  External collaborators (docker_utils, Config, WABizAPI,     *)
(* the filesystem) are nondeterministic choices over their outcomes.       *)
(* Time is counted in whole hours between datetime.min and datetime.max.   *)
(***************************************************************************)
EXTENDS Integers, Sequences, FiniteSets, TLC

\* ------------------------------------------------------------------ bounds
MaxContainers == 3
MaxDuration == 4

\* ------------------------------------------------------- program constants
CONTAINER_LOG_DURATION_HOURS == 3
\* datetime.min / datetime.max, scaled to a range of a dozen hours
DatetimeMin == 0
DatetimeMax == 11

OUTPUT_FOLDER == "wadebug_logs"
SUPPORT_INFO_LOG_FILE == "support-info.log"
WEB_LOG_FILE == "web.log"
WEB_ERROR_LOG_PATH == "/var/log/lighttpd"

\* Python's None; every file name below is a non-empty tuple
None == <<>>

\* ------------------------------------------------------------- containers
\* docker_utils.get_wa_containers() yields WAContainer objects; each has a
\* unique docker name and answers is_coreapp() / is_webapp().
WAContainerPool ==
    { [name |-> "generic", core |-> FALSE, web |-> FALSE],
      [name |-> "coreapp", core |-> TRUE,  web |-> FALSE],
      [name |-> "webapp",  core |-> FALSE, web |-> TRUE],
      [name |-> "coreweb", core |-> TRUE,  web |-> TRUE] }

Inventories ==
    { s \in UNION { [1..n -> WAContainerPool] : n \in 0..MaxContainers } :
        \A i, j \in DOMAIN s : s[i] = s[j] => i = j }

\* ------------------------------------------------------------- file names
ContainerLogName(c) == <<OUTPUT_FOLDER, c.name, "-container.log">>
InspectLogName(c)   == <<OUTPUT_FOLDER, c.name, "-inspect.log">>
CoreDumpName(c)     == <<OUTPUT_FOLDER, c.name, "-coredump.log">>
\* copy_additional_logs_for_webcontainer: "{}-{}".format(name, file_name)
AdditionalLogName(c, file_name) == <<OUTPUT_FOLDER, c.name, "-", file_name>>
SupportInfoName     == <<OUTPUT_FOLDER, SUPPORT_INFO_LOG_FILE>>
StaleFile           == <<OUTPUT_FOLDER, "earlier-run", "-container.log">>

\* ---------------------------------------------------- time window resolver
\* Anchor strings are strings over these characters; the configured format
\* is two digits giving the hour.
Chars == {"0", "1", "x"}
AnchorStrings == UNION { [1..n -> Chars] : n \in 0..2 }

DigitVal(ch) == IF ch = "0" THEN 0 ELSE 1

\* datetime.strptime(start_dt_str, dt_format): ValueError unless the string
\* matches the format and names a representable datetime
Matches(s) == Len(s) = 2 /\ s[1] # "x" /\ s[2] # "x"
strptime(s) == 10 * DigitVal(s[1]) + DigitVal(s[2])

InRange(t) == DatetimeMin <= t /\ t <= DatetimeMax

\* the anchor branch, line 78, before the range check of datetime.__add__
AnchorWindowSwapped(start_dt, d) == <<start_dt - d, start_dt>>

AnchorWindow(start_dt, d) == <<start_dt, start_dt + d>>

\* the no-anchor branch, line 81
NowWindow(end_dt, d) == <<end_dt - d, end_dt>>

\* get_container_logs_start_end_datetimes; "if start_dt_str:" takes the
\* empty string for an absent anchor.  datetime +/- timedelta raises
\* OverflowError when the result leaves [datetime.min, datetime.max].
get_container_logs_start_end_datetimes(start_dt_str, now, duration_hours) ==
    IF start_dt_str # <<>>
    THEN IF ~Matches(start_dt_str)
         THEN [raised |-> "ParseError", window |-> None]
         ELSE LET w == AnchorWindow(strptime(start_dt_str), duration_hours) IN
              IF InRange(w[1]) /\ InRange(w[2])
              THEN [raised |-> "no", window |-> w]
              ELSE [raised |-> "OverflowError", window |-> None]
    ELSE LET w == NowWindow(now, duration_hours) IN
         IF InRange(w[1]) /\ InRange(w[2])
         THEN [raised |-> "no", window |-> w]
         ELSE [raised |-> "OverflowError", window |-> None]

\* ------------------------------------------------------------ access guard
\* check_access with every OSError swallowed (the errno test dropped)
check_access_any_oserror(readable, mk) ==
    IF ~readable THEN "FileAccessError" ELSE "ok"

\* check_access: readable is os.access(cwd, R_OK), mk the result of
\* os.makedirs ("created", or the errno of its OSError)
check_access(readable, mk) ==
    IF ~readable THEN "FileAccessError"
    ELSE IF mk = "created" \/ mk = "EEXIST" THEN "ok"
    ELSE "FileAccessError"

\* ------------------------------------------------------------------- state
VARIABLES
    pc,            \* position in prepare_logs / get_logs
    outcome,       \* "running", "returned" or the exception that ended the run
    result,        \* value returned by prepare_logs, None until it returns
    logs_since,    \* the anchor string argument
    clock,         \* datetime.now() as read by the resolver
    duration_hours,\* the duration argument of the resolver
    window,        \* (logs_start_dt, logs_end_dt), None until resolved
    access,        \* history: what the access guard met ("unreadable",
                   \* or the result of os.makedirs)
    outDir,        \* "absent" / "present": the output directory
    files,         \* files present in the output directory
    archive,       \* wadebug_logs.zip in the working directory
    listed,        \* docker_utils.get_wa_containers() has returned
    wa_containers, \* the inventory it returned
    idx,           \* loop index of get_logs (1-based)
    step,          \* step of the current container
    webapp_log,    \* local of get_webcontainer_logs
    log_files,     \* the artifact list
    errors,        \* the error list of get_logs
    exception_msg, \* message of LogsNotCompleteError
    attempts,      \* history: <<container name, step, outcome>> of each fetch
    support        \* history: outcome of get_support_info, "unset" before

vars == <<pc, outcome, result, logs_since, clock, duration_hours, window,
          access, outDir, files, archive, listed, wa_containers, idx, step,
          webapp_log, log_files, errors, exception_msg, attempts, support>>

collectVars == <<listed, wa_containers, idx, step, webapp_log, log_files,
                 errors, exception_msg, attempts>>

\* anchors and clock readings tried by the whole-run specification
RunAnchors == { <<>>, <<"x">>, <<"0", "1">>, <<"1", "0">> }
RunClocks == { 5 }

\* clock readings of the resolver called on its own: no earlier than the
\* present, which lies about a fifth into the datetime range
WindowClocks == 2..DatetimeMax

NoResult == [handle |-> None, log_files |-> None]
NoArchive == [made |-> "absent", contents |-> {}]
EarlierArchive == [made |-> "earlier", contents |-> {StaleFile}]

Init ==
    /\ pc = "check_access"
    /\ outcome = "running"
    /\ result = NoResult
    /\ logs_since \in RunAnchors
    /\ clock = 0
    /\ duration_hours = CONTAINER_LOG_DURATION_HOURS
    /\ window = None
    /\ access = "unset"
    /\ outDir \in {"absent", "present"}
    /\ files = IF outDir = "present" THEN {StaleFile} ELSE {}
    /\ archive \in {NoArchive, EarlierArchive}
    /\ listed = FALSE
    /\ wa_containers = <<>>
    /\ idx = 0
    /\ step = "none"
    /\ webapp_log = None
    /\ log_files = <<>>
    /\ errors = <<>>
    /\ exception_msg = None
    /\ attempts = <<>>
    /\ support = "unset"

Raise(e) == /\ outcome' = e
            /\ pc' = "done"

\* ----------------------------------------------------- prepare_logs, 35-41
CheckAccess ==
    /\ pc = "check_access"
    /\ \E readable \in BOOLEAN, mk \in {"created", "EEXIST", "EACCES"} :
         /\ (outDir = "present") <=> (mk = "EEXIST")
         /\ access' = IF readable THEN mk ELSE "unreadable"
         /\ outDir' = IF readable /\ mk = "created" THEN "present" ELSE outDir
         /\ IF check_access(readable, mk) = "ok"
            THEN /\ pc' = "resolve"
                 /\ outcome' = outcome
            ELSE Raise("FileAccessError")
    /\ UNCHANGED <<result, logs_since, clock, duration_hours, window, files,
                   archive, support>>
    /\ UNCHANGED collectVars

ResolveWindow ==
    /\ pc = "resolve"
    /\ \E now \in RunClocks :
         LET r == get_container_logs_start_end_datetimes(
                      logs_since, now, CONTAINER_LOG_DURATION_HOURS) IN
         /\ clock' = now
         /\ window' = r.window
         /\ IF r.raised = "no"
            THEN /\ pc' = "get_wa_containers"
                 /\ outcome' = outcome
            ELSE Raise(r.raised)
    /\ UNCHANGED <<result, logs_since, duration_hours, access, outDir, files,
                   archive, support>>
    /\ UNCHANGED collectVars

\* ------------------------------------------------------- get_logs, 84-114
GetWaContainers ==
    /\ pc = "get_wa_containers"
    /\ \/ /\ \E inv \in Inventories : wa_containers' = inv
          /\ listed' = TRUE
          /\ idx' = 1
          /\ step' = "logs"
          /\ pc' = "collect"
          /\ UNCHANGED outcome
       \/ \* the docker client raises: nothing in get_logs or prepare_logs
          \* handles it
          /\ Raise("InventoryException")
          /\ UNCHANGED <<wa_containers, listed, idx, step>>
    /\ log_files' = <<>>
    /\ errors' = <<>>
    /\ UNCHANGED <<result, logs_since, clock, duration_hours, window,
                   access, outDir, files, archive, webapp_log, exception_msg,
                   attempts, support>>

InLoop == pc = "collect" /\ idx <= Len(wa_containers)
wa_container == wa_containers[idx]

Attempt(stepname, out) ==
    attempts' = Append(attempts, <<wa_container.name, stepname, out>>)

\* the exception object a failing step raises
Exc(stepname) == <<"Exception", stepname>>

\* the loop moves to its next iteration
NextContainer ==
    /\ idx' = idx + 1
    /\ step' = "logs"
    /\ webapp_log' = None

\* an exception handler that leaves the loop instead of continuing it
HandleExceptionAndStop(e) ==
    /\ errors' = Append(errors, <<wa_container.name, e>>)
    /\ idx' = Len(wa_containers) + 1
    /\ step' = "logs"
    /\ webapp_log' = None
    /\ UNCHANGED <<log_files, files>>

\* lines 103-105: record (container, exception), go on with the next one
HandleException(e) ==
    /\ errors' = Append(errors, <<wa_container.name, e>>)
    /\ NextContainer
    /\ UNCHANGED <<log_files, files>>

\* lines 90-93, get_container_logs 117-129
GetContainerLogs ==
    /\ InLoop /\ step = "logs"
    /\ \E out \in {"ok", "raise"} :
         /\ Attempt("logs", out)
         /\ IF out = "ok"
            THEN /\ files' = files \cup {ContainerLogName(wa_container)}
                 /\ log_files' = Append(log_files, ContainerLogName(wa_container))
                 /\ step' = "inspect"
                 /\ UNCHANGED <<idx, errors, webapp_log>>
            ELSE HandleException(Exc("logs"))
    /\ UNCHANGED <<pc, outcome, result, logs_since, clock, duration_hours,
                   window, access, outDir, archive, listed, wa_containers,
                   exception_msg, support>>

\* lines 94-95, get_container_inspect_logs 132-141
GetContainerInspectLogs ==
    /\ InLoop /\ step = "inspect"
    /\ \E out \in {"ok", "raise"} :
         /\ Attempt("inspect", out)
         /\ IF out = "ok"
            THEN /\ files' = files \cup {InspectLogName(wa_container)}
                 /\ log_files' = Append(log_files, InspectLogName(wa_container))
                 /\ step' = "coredump"
                 /\ UNCHANGED <<idx, errors, webapp_log>>
            ELSE HandleException(Exc("inspect"))
    /\ UNCHANGED <<pc, outcome, result, logs_since, clock, duration_hours,
                   window, access, outDir, archive, listed, wa_containers,
                   exception_msg, support>>

\* a core-dump step that swallows a failed fetch
CoreDumpFailedSkip ==
    /\ step' = "web"
    /\ UNCHANGED <<idx, errors, webapp_log, log_files, files>>

\* get_corecontainer_coredumps_logs has no handler: the exception of
\* docker_utils.get_core_dump_logs / write_to_file reaches line 103
CoreDumpFailed == HandleException(Exc("coredump"))

\* lines 96-98, get_corecontainer_coredumps_logs 144-153
GetCoreContainerCoredumpsLogs ==
    /\ InLoop /\ step = "coredump"
    /\ IF ~wa_container.core
       THEN /\ step' = "web"
            /\ UNCHANGED <<idx, errors, webapp_log, log_files, files, attempts>>
       ELSE \E out \in {"ok", "raise"} :
              /\ Attempt("coredump", out)
              /\ IF out = "ok"
                 THEN /\ files' = files \cup {CoreDumpName(wa_container)}
                      /\ log_files' = Append(log_files, CoreDumpName(wa_container))
                      /\ step' = "web"
                      /\ UNCHANGED <<idx, errors, webapp_log>>
                 ELSE CoreDumpFailed
    /\ UNCHANGED <<pc, outcome, result, logs_since, clock, duration_hours,
                   window, access, outDir, archive, listed, wa_containers,
                   exception_msg, support>>

\* lines 100-102 with the two names appended in the opposite order
AppendWebLogsReversed(lf, wl, wel) ==
    IF wl # None /\ wel # None THEN lf \o <<wel, wl>> ELSE lf

\* lines 100-102: both names are appended, and only when both are present
AppendWebLogs(lf, wl, wel) ==
    IF wl # None /\ wel # None THEN lf \o <<wl, wel>> ELSE lf

\* line 99, get_webcontainer_logs 156-163: the role test and the first copy
\* (copy_additional_logs_for_webcontainer 170-177 for web.log)
GetWebcontainerLogs ==
    /\ InLoop /\ step = "web"
    /\ IF ~wa_container.web
       THEN /\ log_files' = AppendWebLogs(log_files, None, None)
            /\ NextContainer
            /\ UNCHANGED <<errors, files, attempts>>
       ELSE \E out \in {"ok", "notfound", "raise"} :
              /\ Attempt("web_log", out)
              /\ IF out = "raise"
                 THEN HandleException(Exc("web_log"))
                 ELSE /\ webapp_log' =
                           IF out = "ok"
                           THEN AdditionalLogName(wa_container, WEB_LOG_FILE)
                           ELSE None
                      /\ files' =
                           IF out = "ok"
                           THEN files \cup {AdditionalLogName(wa_container, WEB_LOG_FILE)}
                           ELSE files
                      /\ step' = "web_error"
                      /\ UNCHANGED <<idx, errors, log_files>>
    /\ UNCHANGED <<pc, outcome, result, logs_since, clock, duration_hours,
                   window, access, outDir, archive, listed, wa_containers,
                   exception_msg, support>>

\* get_webcontainer_logs 164-167: the second copy (named after
\* WEB_ERROR_LOG_PATH), then lines 100-102 of get_logs
GetWebcontainerErrorLog ==
    /\ InLoop /\ step = "web_error"
    /\ \E out \in {"ok", "notfound", "raise"} :
         /\ Attempt("web_error_log", out)
         /\ IF out = "raise"
            THEN HandleException(Exc("web_error_log"))
            ELSE LET webapp_error_log ==
                         IF out = "ok"
                         THEN AdditionalLogName(wa_container, WEB_ERROR_LOG_PATH)
                         ELSE None IN
                 /\ files' = IF out = "ok"
                             THEN files \cup {webapp_error_log}
                             ELSE files
                 /\ log_files' = AppendWebLogs(log_files, webapp_log, webapp_error_log)
                 /\ NextContainer
                 /\ UNCHANGED errors
    /\ UNCHANGED <<pc, outcome, result, logs_since, clock, duration_hours,
                   window, access, outDir, archive, listed, wa_containers,
                   exception_msg, support>>

\* lines 108-111: one "Container: {name}\nException: {err}" entry per element
\* of errors, err being the (container, exception) pair itself
ExceptionMsg(errs) ==
    [ header |-> "Some logs could not be obtained:",
      entries |-> [ i \in 1..Len(errs) |->
                      [container |-> errs[i][1], exception |-> errs[i]] ] ]

\* line 114
NonNull(lf) == SelectSeq(lf, LAMBDA f : f # None)

\* the end of get_logs packaging the files before it raises
GetLogsEndArchiveThenRaise ==
    IF errors # <<>>
    THEN /\ exception_msg' = ExceptionMsg(errors)
         /\ archive' = [made |-> "thisrun", contents |-> files]
         /\ Raise("LogsNotCompleteError")
         /\ UNCHANGED log_files
    ELSE /\ log_files' = NonNull(log_files)
         /\ pc' = "get_support_info"
         /\ UNCHANGED <<outcome, exception_msg, archive>>

\* the end of get_logs raising only for two or more errors
GetLogsEndSeveral ==
    IF Len(errors) > 1
    THEN /\ exception_msg' = ExceptionMsg(errors)
         /\ Raise("LogsNotCompleteError")
         /\ UNCHANGED <<log_files, archive>>
    ELSE /\ log_files' = NonNull(log_files)
         /\ pc' = "get_support_info"
         /\ UNCHANGED <<outcome, exception_msg, archive>>

\* the end of get_logs returning the list whatever the errors
GetLogsEndNoRaise ==
    /\ log_files' = NonNull(log_files)
    /\ pc' = "get_support_info"
    /\ UNCHANGED <<outcome, exception_msg, archive>>

\* lines 107-114: raise when errors is non-empty, else return the list
GetLogsEnd ==
    IF errors # <<>>
    THEN /\ exception_msg' = ExceptionMsg(errors)
         /\ Raise("LogsNotCompleteError")
         /\ UNCHANGED <<log_files, archive>>
    ELSE /\ log_files' = NonNull(log_files)
         /\ pc' = "get_support_info"
         /\ UNCHANGED <<outcome, exception_msg, archive>>

GetLogsReturnOrRaise ==
    /\ pc = "collect" /\ idx > Len(wa_containers)
    /\ GetLogsEnd
    /\ UNCHANGED <<result, logs_since, clock, duration_hours, window, access,
                   outDir, files, listed, wa_containers, idx, step,
                   webapp_log, errors, attempts, support>>

\* ------------------------------------------------ get_support_info, 180-195
\* What the collaborators do, step by step: Config().values raises, is empty
\* or lacks "webapp"; the request fails; json.dumps fails; the write fails.
SupportOutcomes == {"config_error", "no_config", "missing_webapp",
                    "request_error", "dumps_error", "write_error", "ok"}

\* get_support_info with the fetched content returned even when the request
\* section bailed out
get_support_info_always(o) ==
    IF o \in {"dumps_error", "write_error"}
    THEN [raised |-> TRUE, value |-> None]
    ELSE [raised |-> FALSE, value |-> SupportInfoName]

\* the try block (183-190) covers configuration and the request only;
\* json.dumps and write_to_file (192-194) run outside it
get_support_info(o) ==
    IF o \in {"config_error", "no_config", "missing_webapp", "request_error"}
    THEN [raised |-> FALSE, value |-> None]
    ELSE IF o \in {"dumps_error", "write_error"}
    THEN [raised |-> TRUE, value |-> None]
    ELSE [raised |-> FALSE, value |-> SupportInfoName]

\* prepare_logs, 44-46
GetSupportInfo ==
    /\ pc = "get_support_info"
    /\ \E o \in SupportOutcomes :
         LET r == get_support_info(o) IN
         /\ support' = o
         /\ IF r.raised
            THEN /\ Raise("SupportInfoException")
                 /\ UNCHANGED <<log_files, files>>
            ELSE /\ log_files' = IF r.value # None
                                 THEN Append(log_files, r.value)
                                 ELSE log_files
                 /\ files' = IF r.value # None
                             THEN files \cup {r.value}
                             ELSE files
                 /\ pc' = "make_archive"
                 /\ UNCHANGED outcome
    /\ UNCHANGED <<result, logs_since, clock, duration_hours, window, access,
                   outDir, archive, listed, wa_containers, idx, step,
                   webapp_log, errors, exception_msg, attempts>>

\* prepare_logs, 47-50: shutil.make_archive over the output directory, then
\* the handle and the list are returned
MakeArchive ==
    /\ pc = "make_archive"
    /\ \E out \in {"ok", "raise"} :
         IF out = "ok"
         THEN /\ archive' = [made |-> "thisrun", contents |-> files]
              /\ result' = [handle |-> <<"wadebug_logs.zip", "rb">>,
                           log_files |-> log_files]
              /\ outcome' = "returned"
              /\ pc' = "done"
         ELSE /\ Raise("ArchiveException")
              /\ UNCHANGED <<archive, result>>
    /\ UNCHANGED <<logs_since, clock, duration_hours, window, access, outDir,
                   files, support>>
    /\ UNCHANGED collectVars

Next ==
    \/ CheckAccess
    \/ ResolveWindow
    \/ GetWaContainers
    \/ GetContainerLogs
    \/ GetContainerInspectLogs
    \/ GetCoreContainerCoredumpsLogs
    \/ GetWebcontainerLogs
    \/ GetWebcontainerErrorLog
    \/ GetLogsReturnOrRaise
    \/ GetSupportInfo
    \/ MakeArchive

Spec == Init /\ [][Next]_vars

\* ------------------------------------------------------------------------
\* The resolver called on its own, with any anchor string, clock reading and
\* duration.
WindowInit ==
    /\ pc = "resolve_call"
    /\ outcome = "running"
    /\ result = NoResult
    /\ logs_since \in AnchorStrings
    /\ clock \in WindowClocks
    /\ duration_hours \in 0..MaxDuration
    /\ window = None
    /\ access = "unset"
    /\ outDir = "absent"
    /\ files = {}
    /\ archive = NoArchive
    /\ listed = FALSE
    /\ wa_containers = <<>>
    /\ idx = 0
    /\ step = "none"
    /\ webapp_log = None
    /\ log_files = <<>>
    /\ errors = <<>>
    /\ exception_msg = None
    /\ attempts = <<>>
    /\ support = "unset"

CallResolver ==
    /\ pc = "resolve_call"
    /\ LET r == get_container_logs_start_end_datetimes(
                    logs_since, clock, duration_hours) IN
       /\ window' = r.window
       /\ outcome' = IF r.raised = "no" THEN "returned" ELSE r.raised
    /\ pc' = "done"
    /\ UNCHANGED <<result, logs_since, clock, duration_hours, access, outDir,
                   files, archive, support>>
    /\ UNCHANGED collectVars

WindowNext == CallResolver

WindowSpec == WindowInit /\ [][WindowNext]_vars

\* ========================================================================
\* Properties
\* ========================================================================
Range(seq) == { seq[i] : i \in DOMAIN seq }
InventoryNames == [ i \in DOMAIN wa_containers |-> wa_containers[i].name ]

\* the loop of get_logs has run to its end
LoopOver == listed /\ ~InLoop

\* what the collaborators did, read from the history alone
Raised(name) == \E a \in Range(attempts) : a[1] = name /\ a[3] = "raise"
Did(name, stepname, out) == <<name, stepname, out>> \in Range(attempts)
Attempted(name, stepname) == \E a \in Range(attempts) : a[1] = name /\ a[2] = stepname
AnyRaised == \E a \in Range(attempts) : a[3] = "raise"

\* the containers the error list names
FailedNames == { errors[i][1] : i \in DOMAIN errors }

\* the file a successful step writes
FileOf(name, stepname) ==
    IF stepname = "logs" THEN ContainerLogName([name |-> name])
    ELSE IF stepname = "inspect" THEN InspectLogName([name |-> name])
    ELSE IF stepname = "coredump" THEN CoreDumpName([name |-> name])
    ELSE IF stepname = "web_log" THEN AdditionalLogName([name |-> name], WEB_LOG_FILE)
    ELSE AdditionalLogName([name |-> name], WEB_ERROR_LOG_PATH)

\* ------------------------------------------------------------------- C1
\* C1: once the loop of get_logs is over, the container-log fetch has been
\* attempted for every container of the inventory, in inventory order,
\* whichever containers failed, and every container without an error has its
\* container-log and inspect-log files in the output directory.
C1_EveryContainerAttempted ==
    LoopOver =>
      LET order == SelectSeq(attempts, LAMBDA a : a[2] = "logs") IN
      /\ Len(order) = Len(wa_containers)
      /\ \A i \in DOMAIN wa_containers : order[i][1] = wa_containers[i].name
      /\ \A i \in DOMAIN wa_containers :
           ~Raised(wa_containers[i].name) =>
             /\ Attempted(wa_containers[i].name, "inspect")
             /\ ContainerLogName(wa_containers[i]) \in files
             /\ InspectLogName(wa_containers[i]) \in files

C1_Witness ==
    /\ LoopOver
    /\ Len(wa_containers) >= 3
    /\ Raised(wa_containers[1].name)
    /\ ~Raised(wa_containers[2].name)
    /\ Raised(wa_containers[3].name)
    /\ InspectLogName(wa_containers[2]) \in files

\* ------------------------------------------------------------------- C2
FailedInOrder == SelectSeq(InventoryNames, LAMBDA n : Raised(n))

\* C2: when get_logs has ended, LogsNotCompleteError was raised exactly when
\* some container failed; its message then has one entry per failing
\* container, in inventory order, each naming that container and carrying its
\* exception, and none for a container that succeeded.
C2_AggregatedErrorIffFailure ==
    (LoopOver /\ pc # "collect") =>
      /\ (outcome = "LogsNotCompleteError") <=> (FailedInOrder # <<>>)
      /\ outcome = "LogsNotCompleteError" =>
           /\ Len(exception_msg.entries) = Len(FailedInOrder)
           /\ \A i \in DOMAIN FailedInOrder :
                LET en == exception_msg.entries[i] IN
                /\ en.container = FailedInOrder[i]
                /\ en.exception[1] = FailedInOrder[i]
                /\ \E a \in Range(attempts) :
                     /\ a[1] = FailedInOrder[i] /\ a[3] = "raise"
                     /\ en.exception[2] = Exc(a[2])

C2_Witness ==
    /\ outcome = "LogsNotCompleteError"
    /\ Len(wa_containers) = 3
    /\ Len(exception_msg.entries) = 2
    /\ ~Raised(wa_containers[2].name)

\* ------------------------------------------------------------------- C3
\* C3 as stated: every run that got past the access guard and the window
\* resolution (and obtained its inventory) has attempted get_support_info by
\* the time it ends.
C3_SupportInfoAlwaysAttempted ==
    (pc = "done" /\ listed) => support # "unset"

\* C3 amended: get_support_info is attempted only after the loop ended with no
\* failing container; a run that got past the guard and the resolution and
\* obtained its inventory has attempted it at its end exactly when no
\* container failed, and never when it ends with LogsNotCompleteError.
C3_SupportInfoOnlyWithoutFailure ==
    /\ support # "unset" => (LoopOver /\ ~AnyRaised)
    /\ (pc = "done" /\ listed) =>
         /\ (support # "unset") <=> ~AnyRaised
         /\ outcome = "LogsNotCompleteError" => support = "unset"

C3_Witness ==
    /\ pc = "done"
    /\ outcome = "LogsNotCompleteError"
    /\ support = "unset"
    /\ Len(wa_containers) >= 2

\* ------------------------------------------------------------------- C4
\* C4: for a web container whose collection raised nothing, each copy that
\* succeeded has its artifact in the artifact list, each copy that met
\* not-found has none, and the container has no error.
C4_CopiesIndependent ==
    LoopOver =>
      \A i \in DOMAIN wa_containers :
        LET c == wa_containers[i] IN
        (c.web /\ ~Raised(c.name)) =>
          /\ c.name \notin FailedNames
          /\ \A st \in {"web_log", "web_error_log"} :
               /\ Did(c.name, st, "ok") => FileOf(c.name, st) \in Range(log_files)
               /\ Did(c.name, st, "notfound") => FileOf(c.name, st) \notin Range(log_files)

\* ------------------------------------------------------------------- C5
\* C5 as stated: a core container whose core-dump fetch failed has no
\* core-dump artifact and no error, and its web copy, if it is a web
\* container, is still attempted.
C5_CoreDumpFailureSkipped ==
    LoopOver =>
      \A i \in DOMAIN wa_containers :
        LET c == wa_containers[i] IN
        Did(c.name, "coredump", "raise") =>
          /\ CoreDumpName(c) \notin Range(log_files)
          /\ c.name \notin FailedNames
          /\ c.web => Attempted(c.name, "web_log")

\* C5 amended: a core container whose core-dump fetch failed has no core-dump
\* artifact, is recorded once in the error list with that exception, and its
\* web copies are not attempted; the core-dump step passes without a fetch and
\* without an error only for a container that is not a core container.
C5_CoreDumpFailureRecorded ==
    LoopOver =>
      \A i \in DOMAIN wa_containers :
        LET c == wa_containers[i] IN
        /\ Did(c.name, "coredump", "raise") =>
             /\ CoreDumpName(c) \notin Range(log_files)
             /\ CoreDumpName(c) \notin files
             /\ Cardinality({ k \in DOMAIN errors : errors[k][1] = c.name }) = 1
             /\ <<c.name, Exc("coredump")>> \in Range(errors)
             /\ ~Attempted(c.name, "web_log")
             /\ ~Attempted(c.name, "web_error_log")
        /\ (~c.core /\ Attempted(c.name, "inspect") /\ ~Raised(c.name)) =>
             /\ ~Attempted(c.name, "coredump")
             /\ c.name \notin FailedNames

C5_Witness ==
    /\ LoopOver
    /\ Len(wa_containers) >= 2
    /\ wa_containers[1].core /\ wa_containers[1].web
    /\ Did(wa_containers[1].name, "coredump", "raise")
    /\ ~Raised(wa_containers[2].name)

\* ------------------------------------------------------------------- C6
\* C6: get_support_info never raises: it returns null on every failure and
\* absent configuration, and the artifact only when every step succeeded.
C6_SupportInfoNeverRaises ==
    support # "unset" =>
      /\ outcome # "SupportInfoException"
      /\ (SupportInfoName \in Range(log_files)) <=> (support = "ok")

\* ------------------------------------------------------------------- C7
NothingCollected ==
    /\ ~listed
    /\ attempts = <<>>
    /\ log_files = <<>>
    /\ files \subseteq {StaleFile}
    /\ support = "unset"
    /\ archive \in {NoArchive, EarlierArchive}
    /\ result = NoResult

\* C7: a guard that cannot read the directory, or cannot create the output
\* directory for a reason other than its existence, ends the run with
\* FileAccessError; a non-empty anchor that does not match the format ends it
\* with ParseError; and a run ended by either has listed no container,
\* fetched and written nothing, not asked for support info and made no
\* archive.
C7_PreflightFailuresAreFatal ==
    /\ access \in {"unreadable", "EACCES"} =>
         (pc = "done" /\ outcome = "FileAccessError")
    /\ (pc \notin {"check_access", "resolve"} /\ access \in {"created", "EEXIST"}
          /\ logs_since # <<>> /\ ~Matches(logs_since)) =>
         (pc = "done" /\ outcome = "ParseError")
    /\ outcome \in {"FileAccessError", "ParseError"} =>
         (pc = "done" /\ NothingCollected)

C7_Witness ==
    /\ pc = "done"
    /\ outcome = "FileAccessError"
    /\ access = "EACCES"
    /\ archive = EarlierArchive

C7_WitnessParse ==
    /\ pc = "done"
    /\ outcome = "ParseError"
    /\ outDir = "present"

\* ------------------------------------------------------------------- C8
ValidAnchor == Matches(logs_since)
NoAnchor == logs_since = <<>>

\* C8 as stated: for every valid anchor and every duration >= 0 the resolver
\* returns [anchor, anchor + duration], and without an anchor
\* [now - duration, now].
C8_WindowForEveryInput ==
    (pc = "done" /\ (ValidAnchor \/ NoAnchor)) =>
      /\ outcome = "returned"
      /\ ValidAnchor =>
           window = <<strptime(logs_since), strptime(logs_since) + duration_hours>>
      /\ NoAnchor => window = <<clock - duration_hours, clock>>
      /\ window[2] - window[1] = duration_hours
      /\ window[1] <= window[2]

\* C8 amended: for a valid anchor the resolver returns
\* [anchor, anchor + duration] when anchor + duration is a representable
\* datetime and raises OverflowError otherwise; without an anchor it returns
\* [now - duration, now] when now - duration is representable and raises
\* OverflowError otherwise; every window returned has end - start = duration
\* and start <= end.
C8_WindowUnlessOverflow ==
    pc = "done" =>
      /\ ValidAnchor =>
           IF strptime(logs_since) + duration_hours <= DatetimeMax
           THEN /\ outcome = "returned"
                /\ window = <<strptime(logs_since),
                              strptime(logs_since) + duration_hours>>
           ELSE outcome = "OverflowError"
      /\ NoAnchor =>
           IF clock - duration_hours >= DatetimeMin
           THEN /\ outcome = "returned"
                /\ window = <<clock - duration_hours, clock>>
           ELSE outcome = "OverflowError"
      /\ outcome = "returned" =>
           /\ window[2] - window[1] = duration_hours
           /\ window[1] <= window[2]

C8_Witness ==
    /\ pc = "done"
    /\ ValidAnchor
    /\ outcome = "returned"
    /\ duration_hours = MaxDuration
    /\ window[1] > DatetimeMin

\* ------------------------------------------------------------------- C9
\* the artifacts of one container when each of its fetches succeeds
ArtifactsOf(c) ==
    <<ContainerLogName(c), InspectLogName(c)>>
      \o (IF c.core THEN <<CoreDumpName(c)>> ELSE <<>>)
      \o (IF c.web THEN <<AdditionalLogName(c, WEB_LOG_FILE),
                          AdditionalLogName(c, WEB_ERROR_LOG_PATH)>>
          ELSE <<>>)

RECURSIVE ArtifactsUpTo(_)
ArtifactsUpTo(n) ==
    IF n = 0 THEN <<>> ELSE ArtifactsUpTo(n - 1) \o ArtifactsOf(wa_containers[n])

AllFetchesOk == \A a \in Range(attempts) : a[3] = "ok"

\* C9: when prepare_logs returns and every fetch of every container
\* succeeded, the returned list has no null entry and is the containers'
\* artifacts in inventory order, each container's in step order, followed by
\* the support-info artifact iff there is one; its length is
\* 2N + core containers + 2 * web containers, plus one with support info.
C9_ArtifactListWhenAllSucceed ==
    (outcome = "returned" /\ AllFetchesOk) =>
      LET n == Len(wa_containers)
          cores == Cardinality({ i \in 1..n : wa_containers[i].core })
          webs == Cardinality({ i \in 1..n : wa_containers[i].web })
          extra == IF support = "ok" THEN 1 ELSE 0 IN
      /\ None \notin Range(result.log_files)
      /\ result.log_files =
           ArtifactsUpTo(n) \o (IF support = "ok" THEN <<SupportInfoName>> ELSE <<>>)
      /\ Len(result.log_files) = 2 * n + cores + 2 * webs + extra

C9_Witness ==
    /\ outcome = "returned"
    /\ AllFetchesOk
    /\ InventoryNames = <<"generic", "coreapp", "webapp">>
    /\ support = "no_config"
    /\ Len(result.log_files) = 9

\* ------------------------------------------------------------------ C10
\* C10: a run in which a container failed ends with LogsNotCompleteError,
\* returns nothing, and never makes the archive: the archive is the one the
\* run found; and every file a step wrote, those of the failing containers
\* included, is still in the output directory.
C10_NoArchiveAfterFailure ==
    /\ AnyRaised =>
         /\ archive \in {NoArchive, EarlierArchive}
         /\ result = NoResult
         /\ outcome \in {"running", "LogsNotCompleteError"}
         /\ pc \in {"collect", "done"}
         /\ \A a \in Range(attempts) : a[3] = "ok" => FileOf(a[1], a[2]) \in files
    /\ (AnyRaised /\ LoopOver /\ pc # "collect") =>
         (pc = "done" /\ outcome = "LogsNotCompleteError")

C10_Witness ==
    /\ pc = "done"
    /\ outcome = "LogsNotCompleteError"
    /\ archive = EarlierArchive
    /\ \E a \in Range(attempts) :
         /\ a[2] = "logs" /\ a[3] = "ok" /\ Raised(a[1])
         /\ FileOf(a[1], "logs") \in files

====
